---- MODULE Spec2Model ----
(***************************************************************************)
(* The GWAS notebook (2_GWAS.ipynb) as a state machine.  One action per   *)
(* code cell; the state is the notebook's global variables, the three     *)
(* input files and the two output files.  Cells run top to bottom and the *)
(* run stops at the first exception (pc = "error").                       *)
(*                                                                         *)
(* Python indices are 0-based and are kept 0-based in the state           *)
(* (acn_indices, SNP_indices, chr_regions); a TLA+ sequence is read at    *)
(* index + 1.                                                              *)
(***************************************************************************)
EXTENDS Integers, Sequences, FiniteSets, TLC

\* ------------------------------------------------------------- bounds
\* accession identifiers of the universe: 1..NAcc
NAcc == 3
\* number of SNPs (rows of 'snps') of the genotype file
NSnp == 3
\* largest extent of one dimension of an object handed to the section-4
\* checks on their own (SpecCheck)
MaxExtent == 2

\* ------------------------------------------------------ generic helpers
Ids == 1..NAcc

Range(s) == {s[i] : i \in DOMAIN s}

Min2(a, b) == IF a <= b THEN a ELSE b

Max2(a, b) == IF a >= b THEN a ELSE b

\* the elements of a finite set of integers in ascending order
RECURSIVE Ascending(_)
Ascending(S) ==
  IF S = {} THEN <<>>
  ELSE LET m == CHOOSE x \in S : \A y \in S : x <= y
       IN  <<m>> \o Ascending(S \ {m})

\* sequences without repetition over S, of length lo..Cardinality(S)
InjSeqs(S, lo) ==
  UNION {{f \in [1..n -> S] : \A i, j \in 1..n : i # j => f[i] # f[j]} :
           n \in lo..Cardinality(S)}

\* a Python name that has not been assigned yet
Undef == [kind |-> "undef", shape |-> <<>>, data |-> <<>>]

\* a numpy array: its shape and its elements (a 2-D array is a sequence of rows)
NdArray(sh, d) == [kind |-> "ndarray", shape |-> sh, data |-> d]

\* missing value of a phenotype (numpy NaN)
NaN == -1

\* lambda x: str(int(x)).encode('UTF8'): the decimal digits of the identifier
AcnBytes(x) == ToString(x)

\* ---------------------------------------------------------- the inputs
\* The value of a phenotyped accession, the call of an accession at a SNP and
\* the kinship of two accessions are fixed tables over the identifiers, so
\* that a value found in Y, G or K tells which accession it belongs to.
PhenoValue(a) == 10 * a

\* SNP s (0-based) is carried (allele 1) by the accessions whose identifier
\* has bit s set
Call(s, a) == (a \div (2 ^ s)) % 2

KinValue(sym, a, b) == IF sym THEN 10 * Min2(a, b) + Max2(a, b) ELSE 10 * a + b

\* a phenotype cell of accession a that holds text which is neither a number
\* nor a marker of a missing value; read_csv keeps it as it is (and then keeps
\* the numbers of the column as their text, which is not told apart here)
TextValue(a) == 0 - (10 * a)

\* a value that is a number
IsNumber(v) == v >= 0

\* the phenotype CSV: rows (ecotypeid, value), unique identifiers
PhenoCsv(order, missing, text) ==
  [k \in DOMAIN order |->
     [id |-> order[k],
      val |-> IF order[k] \in missing THEN NaN
              ELSE IF order[k] \in text THEN TextValue(order[k])
              ELSE PhenoValue(order[k])]]

\* chromosome regions [start, end) that are contiguous and cover 0..NSnp-1,
\* one for every set of cut points
RegionsOf(cuts) ==
  LET b == Ascending({0, NSnp} \cup cuts)
  IN  [c \in 1..(Len(b) - 1) |-> <<b[c], b[c + 1]>>]

\* the genotype HDF5 file: accessions, positions, snps (SNP x accession), and
\* the chr_regions attribute of positions
GenoFile(order, cuts) ==
  [accessions |-> [j \in DOMAIN order |-> AcnBytes(order[j])],
   positions  |-> [i \in 1..NSnp |-> 100 + i],
   snps       |-> [i \in 1..NSnp |-> [j \in DOMAIN order |-> Call(i - 1, order[j])]],
   chr_regions |-> RegionsOf(cuts)]

\* the kinship HDF5 file: accessions and the kinship matrix
KinFile(order, sym) ==
  [accessions |-> [j \in DOMAIN order |-> AcnBytes(order[j])],
   kinship    |-> [i \in DOMAIN order |->
                     [j \in DOMAIN order |-> KinValue(sym, order[i], order[j])]]]

\* maf_cutoff as a fraction <<numerator, denominator>>; 1/10 is the notebook's
Cutoffs == {<<0, 1>>, <<1, 10>>, <<1, 3>>, <<1, 2>>}

VARIABLES
  pc,           \* the next cell to run, "done" or "error"
  err,          \* the exception that stopped the run, or "none"
  maf_cutoff,
  pheno_csv, geno_file, kin_file,   \* the input files
  geno_hdf, kin_hdf,                \* file handles: "none", "open", "closed"
  pheno,        \* the DataFrame: rows (acn, val), acn the index
  acn_indices,
  Y, G, K,
  MAF, SNP_indices, SNPs_MAF,
  r, r_nc,      \* what scan returned
  out_csv, out_csv_nc,              \* the output files
  io,           \* the operations on the two HDF5 files so far, in order
  scan_calls,   \* the arguments of every call of scan so far, in order
  results,      \* the table handed to ggmanhattan
  padj_method, p_sign_theshold,     \* two more of its arguments
  plot          \* what ggmanhattan computed, before any call NoPlot

vars == <<pc, err, maf_cutoff, pheno_csv, geno_file, kin_file, geno_hdf, kin_hdf,
          pheno, acn_indices, Y, G, K, MAF, SNP_indices, SNPs_MAF, r, r_nc,
          out_csv, out_csv_nc, io, scan_calls, results, padj_method, p_sign_theshold,
          plot>>

\* the plotting function's variables, which no notebook cell touches
plotVars == <<results, padj_method, p_sign_theshold, plot>>

NoResult == [pv |-> <<>>, effsizes |-> <<>>, returned |-> FALSE]

NoFile == [written |-> FALSE, columns |-> <<>>, rows |-> <<>>]

NoPlot == [drawn |-> FALSE]

\* the notebook's variables before any cell has run
Fresh ==
  /\ pc = "2a"
  /\ err = "none"
  /\ geno_hdf = "none"
  /\ kin_hdf = "none"
  /\ pheno = <<>>
  /\ acn_indices = <<>>
  /\ Y = Undef
  /\ G = Undef
  /\ K = Undef
  /\ MAF = <<>>
  /\ SNP_indices = <<>>
  /\ SNPs_MAF = <<>>
  /\ r = NoResult
  /\ r_nc = NoResult
  /\ out_csv = NoFile
  /\ out_csv_nc = NoFile
  /\ io = <<>>
  /\ scan_calls = <<>>
  /\ results = <<>>
  /\ padj_method = "BH"
  /\ p_sign_theshold = 10
  /\ plot = NoPlot

\* The inputs are drawn from three families.  In each, two of the three
\* datasets vary against each other and the third is held fixed.

\* The phenotype table and the genotype file hold their accessions in
\* arbitrary, independent orders, each lacking at most one accession.
InitPhenoGeno ==
  \E po \in InjSeqs(Ids, NAcc - 1), go \in InjSeqs(Ids, NAcc - 1) :
    /\ pheno_csv = PhenoCsv(po, {}, {})
    /\ geno_file = GenoFile(go, {})
    /\ kin_file = KinFile(Ascending(Ids), TRUE)
    /\ maf_cutoff = <<1, 10>>

\* The genotype file and the kinship file hold their accessions in arbitrary,
\* independent orders, each lacking at most one accession; the kinship matrix
\* is symmetric or not.
InitGenoKin ==
  \E go \in InjSeqs(Ids, NAcc - 1), ko \in InjSeqs(Ids, NAcc - 1), sym \in BOOLEAN :
    /\ pheno_csv = PhenoCsv(Ascending(Ids), {}, {})
    /\ geno_file = GenoFile(go, {})
    /\ kin_file = KinFile(ko, sym)
    /\ maf_cutoff = <<1, 10>>

\* Both files hold every accession in ascending order, while the phenotype
\* table (any subset, any missing values), the threshold and the chromosome
\* regions vary.
InitFilters ==
  \E have \in SUBSET Ids, cuts \in SUBSET (1..(NSnp - 1)), c \in Cutoffs :
    \E missing \in SUBSET have :
      /\ pheno_csv = PhenoCsv(Ascending(have), missing, {})
      /\ geno_file = GenoFile(Ascending(Ids), cuts)
      /\ kin_file = KinFile(Ascending(Ids), TRUE)
      /\ maf_cutoff = c

\* Both files hold every accession in ascending order, while the phenotype
\* table holds, for any of the accessions, a number, a missing value or text.
InitPhenoValues ==
  \E have \in SUBSET Ids :
    \E missing \in SUBSET have :
      \E text \in SUBSET (have \ missing) :
        /\ pheno_csv = PhenoCsv(Ascending(have), missing, text)
        /\ geno_file = GenoFile(Ascending(Ids), {})
        /\ kin_file = KinFile(Ascending(Ids), TRUE)
        /\ maf_cutoff = <<1, 10>>

Init == Fresh /\ (InitPhenoGeno \/ InitGenoKin \/ InitFilters \/ InitPhenoValues)

\* ------------------------------------------------------- file handles
\* one operation on an HDF5 file: "open" (h5py.File), "read" (of a dataset or
\* of an attribute) or "close", and the line of the notebook that does it
FileOp(op, file, line) == [op |-> op, file |-> file, line |-> line]

\* an operation done once for each of n accessions (inside a comprehension)
Repeat(e, n) == [k \in 1..n |-> e]

\* what the name geno_hdf (kin_hdf) refers to after the operations ops: the
\* handle that was opened or closed last, h if there was none
HandleAfter(h, ops, file) ==
  LET ks == {k \in DOMAIN ops : ops[k].file = file /\ ops[k].op # "read"}
  IN  IF ks = {} THEN h
      ELSE IF ops[CHOOSE k \in ks : \A l \in ks : l <= k].op = "open" THEN "open"
      ELSE "closed"

\* ------------------------------------------------------------ 2. load
\* 2a: pd.read_csv(pheno_file, index_col = 0), then the index is encoded
Load2a ==
  /\ pc = "2a"
  /\ pheno' = [k \in DOMAIN pheno_csv |->
                 [acn |-> AcnBytes(pheno_csv[k].id), val |-> pheno_csv[k].val]]
  /\ pc' = "dropna"
  /\ UNCHANGED <<io, scan_calls, plotVars>>
  /\ UNCHANGED <<err, maf_cutoff, pheno_csv, geno_file, kin_file, geno_hdf, kin_hdf,
                 acn_indices, Y, G, K, MAF, SNP_indices, SNPs_MAF, r, r_nc,
                 out_csv, out_csv_nc>>

\* cell 4: pheno = pheno.dropna()
DropNa ==
  /\ pc = "dropna"
  /\ pheno' = SelectSeq(pheno, LAMBDA row : row.val # NaN)
  /\ pc' = "2b"
  /\ UNCHANGED <<io, scan_calls, plotVars>>
  /\ UNCHANGED <<err, maf_cutoff, pheno_csv, geno_file, kin_file, geno_hdf, kin_hdf,
                 acn_indices, Y, G, K, MAF, SNP_indices, SNPs_MAF, r, r_nc,
                 out_csv, out_csv_nc>>

\* 2b: geno_hdf = h5py.File(geno_file, 'r'); the loop only prints
Io2b == <<FileOp("open", "geno", 259), FileOp("read", "geno", 265)>>

Load2b ==
  /\ pc = "2b"
  /\ io' = io \o Io2b
  /\ geno_hdf' = HandleAfter(geno_hdf, Io2b, "geno")
  /\ pc' = "2c"
  /\ UNCHANGED <<scan_calls, plotVars>>
  /\ UNCHANGED <<err, maf_cutoff, pheno_csv, geno_file, kin_file, kin_hdf, pheno,
                 acn_indices, Y, G, K, MAF, SNP_indices, SNPs_MAF, r, r_nc,
                 out_csv, out_csv_nc>>

\* 2c: kin_hdf = h5py.File(kin_file, 'r'); the rest only prints
Io2c == <<FileOp("open", "kin", 310), FileOp("read", "kin", 315)>>

Load2c ==
  /\ pc = "2c"
  /\ io' = io \o Io2c
  /\ kin_hdf' = HandleAfter(kin_hdf, Io2c, "kin")
  /\ pc' = "3a"
  /\ UNCHANGED <<scan_calls, plotVars>>
  /\ UNCHANGED <<err, maf_cutoff, pheno_csv, geno_file, kin_file, geno_hdf, pheno,
                 acn_indices, Y, G, K, MAF, SNP_indices, SNPs_MAF, r, r_nc,
                 out_csv, out_csv_nc>>

\* --------------------------------------------------------- 3. prepare
\* np.where(vec == x)[0]: the 0-based places of x in vec, ascending
Where(vec, x) == Ascending({i - 1 : i \in {j \in DOMAIN vec : vec[j] = x}})

\* np.where(vec == x)[0][0]; the caller has checked that x is in vec
IndexOf(vec, x) == Where(vec, x)[1]

\* list.sort() of a list of integers
SortIndices(s) == SortSeq(s, LAMBDA a, b : a < b)

\* the index of the DataFrame
Index(df) == [k \in DOMAIN df |-> df[k].acn]

\* df.loc[labels] of a uniquely indexed DataFrame: the labelled rows, in the
\* order of the labels
Loc(df, labels) ==
  [k \in DOMAIN labels |-> df[CHOOSE i \in DOMAIN df : df[i].acn = labels[k]]]

\* vec[indices] for a list of 0-based indices
Take(vec, indices) == [k \in DOMAIN indices |-> vec[indices[k] + 1]]

\* 3a line 350: the phenotyped accessions that are genotyped, in pheno's order
AcnGenotyped(df, accessions) ==
  SelectSeq(Index(df), LAMBDA acn : acn \in Range(accessions))

\* acn_indices left in pheno's order (no acn_indices.sort())
Mut_GenoIndices_Unsorted(df, accessions) ==
  [k \in DOMAIN df |-> IndexOf(accessions, df[k].acn)]

\* 3a lines 354-355: the genotype-file places of pheno's accessions, sorted
GenoIndices(df, accessions) ==
  SortIndices([k \in DOMAIN df |-> IndexOf(accessions, df[k].acn)])

\* a 1-D array of the values (the column taken as a Series)
Mut_ToNumpy_Flat(df) == NdArray(<<Len(df)>>, [k \in DOMAIN df |-> df[k].val])

\* 3a line 359: pheno.to_numpy(), an n x 1 array
ToNumpy(df) == NdArray(<<Len(df), 1>>, [k \in DOMAIN df |-> <<df[k].val>>])

\* 3a reads the accessions once for every row of pheno on line 350, once for
\* every remaining row on line 354, and once on line 356
Io3a(before, after) ==
  Repeat(FileOp("read", "geno", 350), before) \o
  Repeat(FileOp("read", "geno", 354), after) \o
  <<FileOp("read", "geno", 356)>>

\* 3a.  An h5py dataset read with an empty index list either gives an empty
\* array or raises, depending on the h5py version; the first such read of the
\* run is line 356.
Prep3a ==
  /\ pc = "3a"
  /\ geno_hdf = "open"
  /\ LET acn_genotyped == AcnGenotyped(pheno, geno_file.accessions)
         pheno1 == Loc(pheno, acn_genotyped)
         idx == GenoIndices(pheno1, geno_file.accessions)
         acn_order == Take(geno_file.accessions, idx)
         pheno2 == Loc(pheno1, acn_order)
     IN  /\ io' = io \o Io3a(Len(pheno), Len(pheno1))
         /\ \/ /\ pheno' = pheno2
               /\ acn_indices' = idx
               /\ Y' = ToNumpy(pheno2)
               /\ pc' = "3b"
               /\ err' = err
            \/ /\ idx = <<>>
               /\ pheno' = pheno1
               /\ acn_indices' = idx
               /\ Y' = Y
               /\ pc' = "error"
               /\ err' = "H5pyError"
  /\ UNCHANGED <<scan_calls, plotVars>>
  /\ UNCHANGED <<maf_cutoff, pheno_csv, geno_file, kin_file, geno_hdf, kin_hdf,
                 G, K, MAF, SNP_indices, SNPs_MAF, r, r_nc, out_csv, out_csv_nc>>

\* every column of the file (G = geno_hdf['snps'][:])
Mut_SubsetSnps_All(snps, indices) ==
  NdArray(<<Len(snps), Len(snps[1])>>, snps)

\* 3b, cell 9: G = geno_hdf['snps'][:, acn_indices], a SNP x accession array
SubsetSnps(snps, indices) ==
  NdArray(<<Len(snps), Len(indices)>>, [i \in DOMAIN snps |-> Take(snps[i], indices)])

Io3b == <<FileOp("read", "geno", 389)>>

Subset3b ==
  /\ pc = "3b"
  /\ geno_hdf = "open"
  /\ io' = io \o Io3b
  /\ UNCHANGED <<scan_calls, plotVars>>
  /\ G' = SubsetSnps(geno_file.snps, acn_indices)
  /\ pc' = "3b_maf"
  /\ UNCHANGED <<err, maf_cutoff, pheno_csv, geno_file, kin_file, geno_hdf, kin_hdf,
                 pheno, acn_indices, Y, K, MAF, SNP_indices, SNPs_MAF, r, r_nc,
                 out_csv, out_csv_nc>>

RECURSIVE SumSeq(_)
SumSeq(s) == IF s = <<>> THEN 0 ELSE s[1] + SumSeq(Tail(s))

\* AC1 = G.sum(axis = 1)
AlleleCount1(g) == [i \in DOMAIN g.data |-> SumSeq(g.data[i])]

\* AC0 = G.shape[1] - AC1
AlleleCount0(g) == [i \in DOMAIN g.data |-> g.shape[2] - AlleleCount1(g)[i]]

\* MAC = AC1: the count of allele 1, whether it is the minor allele or not
Mut_MinorAlleleCount_AC1(g) == AlleleCount1(g)

\* MAC = np.min(np.vstack((AC0, AC1)), axis = 0)
MinorAlleleCount(g) ==
  [i \in DOMAIN g.data |-> Min2(AlleleCount0(g)[i], AlleleCount1(g)[i])]

\* MAF = MAC / G.shape[1], kept as the fraction <<MAC, n>>; <<0, 0>> is 0/0,
\* which numpy evaluates to NaN
MinorAlleleFreq(g) == [i \in DOMAIN g.data |-> <<MinorAlleleCount(g)[i], g.shape[2]>>]

\* MAF > maf_cutoff
Mut_AtLeast_Strict(f, cutoff) == f[2] > 0 /\ f[1] * cutoff[2] > cutoff[1] * f[2]

\* MAF >= maf_cutoff for one SNP; a comparison with NaN is False
AtLeast(f, cutoff) == f[2] > 0 /\ f[1] * cutoff[2] >= cutoff[1] * f[2]

\* the SNPs that pass, last one first
Mut_SelectSnps_Descending(maf, cutoff) ==
  LET up == Ascending({i - 1 : i \in {j \in DOMAIN maf : AtLeast(maf[j], cutoff)}})
  IN  [k \in DOMAIN up |-> up[Len(up) + 1 - k]]

\* np.where(MAF >= maf_cutoff)[0]: 0-based, ascending
SelectSnps(maf, cutoff) ==
  Ascending({i - 1 : i \in {j \in DOMAIN maf : AtLeast(maf[j], cutoff)}})

\* G.transpose() without G = G[SNP_indices, :]
Mut_FilterTranspose_NoFilter(g, indices) ==
  NdArray(<<g.shape[2], Len(g.data)>>,
          [k \in 1..g.shape[2] |-> [c \in DOMAIN g.data |-> g.data[c][k]]])

\* G = G[SNP_indices, :] without G.transpose()
Mut_FilterTranspose_NoTranspose(g, indices) ==
  NdArray(<<Len(indices), g.shape[2]>>,
          [c \in DOMAIN indices |-> g.data[indices[c] + 1]])

\* G[SNP_indices, :].transpose(): an accession x retained-SNP array
FilterTranspose(g, indices) ==
  NdArray(<<g.shape[2], Len(indices)>>,
          [k \in 1..g.shape[2] |-> [c \in DOMAIN indices |-> g.data[indices[c] + 1][k]]])

\* cell 10 never closes the genotype file
Mut_Io3bMaf_NoClose == <<>>

\* cell 10 ends with geno_hdf.close()
Io3bMaf == <<FileOp("close", "geno", 429)>>

\* 3b, cell 10
Maf3b ==
  /\ pc = "3b_maf"
  /\ MAF' = MinorAlleleFreq(G)
  /\ SNP_indices' = SelectSnps(MAF', maf_cutoff)
  /\ SNPs_MAF' = Take(MAF', SNP_indices')
  /\ G' = FilterTranspose(G, SNP_indices')
  /\ io' = io \o Io3bMaf
  /\ geno_hdf' = HandleAfter(geno_hdf, Io3bMaf, "geno")
  /\ pc' = "3c"
  /\ UNCHANGED <<scan_calls, plotVars>>
  /\ UNCHANGED <<err, maf_cutoff, pheno_csv, geno_file, kin_file, kin_hdf, pheno,
                 acn_indices, Y, K, r, r_nc, out_csv, out_csv_nc>>

\* the kinship-file places of pheno's accessions, largest first
Mut_KinIndices_Descending(df, accessions) ==
  SortSeq([k \in DOMAIN df |-> IndexOf(accessions, df[k].acn)], LAMBDA a, b : a > b)

\* 3c lines 456-457: the kinship-file places of pheno's accessions, sorted
KinIndices(df, accessions) ==
  SortIndices([k \in DOMAIN df |-> IndexOf(accessions, df[k].acn)])

\* kin_hdf['kinship'][acn_indices, :]: the rows alone
Mut_SubsetKinship_RowsOnly(kinship, indices) ==
  NdArray(<<Len(indices), Len(kinship)>>,
          [a \in DOMAIN indices |-> kinship[indices[a] + 1]])

\* 3c line 458: kin_hdf['kinship'][acn_indices, :][:, acn_indices]
SubsetKinship(kinship, indices) ==
  NdArray(<<Len(indices), Len(indices)>>,
          [a \in DOMAIN indices |->
             [b \in DOMAIN indices |-> kinship[indices[a] + 1][indices[b] + 1]]])

\* the number of rows of pheno that line 456 looks up: all of them, or those
\* up to the first accession the kinship file does not hold
Lookups3c(df, accessions) ==
  LET absent == {k \in DOMAIN df : df[k].acn \notin Range(accessions)}
  IN  IF absent = {} THEN Len(df) ELSE CHOOSE k \in absent : \A l \in absent : k <= l

\* 3c reads the accessions once for every looked-up row (line 456) and, when
\* all were found, reads the kinship matrix and closes the file
Io3c(df, accessions) ==
  Repeat(FileOp("read", "kin", 456), Lookups3c(df, accessions)) \o
  (IF \A k \in DOMAIN df : df[k].acn \in Range(accessions)
     THEN <<FileOp("read", "kin", 458), FileOp("close", "kin", 459)>>
     ELSE <<>>)

\* 3c.  np.where(...)[0][0] raises IndexError for an accession that the
\* kinship file does not hold; nothing has been assigned by then.
Prep3c ==
  /\ pc = "3c"
  /\ kin_hdf = "open"
  /\ io' = io \o Io3c(pheno, kin_file.accessions)
  /\ kin_hdf' = HandleAfter(kin_hdf, Io3c(pheno, kin_file.accessions), "kin")
  /\ IF \A k \in DOMAIN pheno : pheno[k].acn \in Range(kin_file.accessions)
       THEN /\ acn_indices' = KinIndices(pheno, kin_file.accessions)
            /\ K' = SubsetKinship(kin_file.kinship, acn_indices')
            /\ pc' = "4a"
            /\ err' = err
       ELSE /\ pc' = "error"
            /\ err' = "IndexError"
            /\ UNCHANGED <<acn_indices, K>>
  /\ UNCHANGED <<scan_calls, plotVars>>
  /\ UNCHANGED <<maf_cutoff, pheno_csv, geno_file, kin_file, geno_hdf, pheno,
                 Y, G, MAF, SNP_indices, SNPs_MAF, r, r_nc, out_csv, out_csv_nc>>

\* ----------------------------------------------------------- 4. check
IsArray(x) == x.kind = "ndarray"

\* cell 13.  Y.shape[1] of an array of fewer than two dimensions raises
\* IndexError (tuple index out of range).
Check4aResult(y) ==
  IF ~IsArray(y) THEN "ValueError"
  ELSE IF Len(y.shape) < 2 THEN "IndexError"
  ELSE IF y.shape[2] # 1 THEN "ValueError"
  ELSE "ok"

\* cell 14
Check4bResult(g, y) ==
  IF ~IsArray(g) THEN "ValueError"
  ELSE IF Len(g.shape) < 1 \/ Len(y.shape) < 1 THEN "IndexError"
  ELSE IF g.shape[1] # y.shape[1] THEN "ValueError"
  ELSE "ok"

\* cell 15.  `or` evaluates K.shape[1] only when the row counts agree.
Check4cResult(k, y) ==
  IF ~IsArray(k) THEN "ValueError"
  ELSE IF Len(k.shape) < 1 \/ Len(y.shape) < 1 THEN "IndexError"
  ELSE IF k.shape[1] # y.shape[1] THEN "ValueError"
  ELSE IF Len(k.shape) < 2 THEN "IndexError"
  ELSE IF k.shape[2] # y.shape[1] THEN "ValueError"
  ELSE "ok"

Check4a ==
  /\ pc = "4a"
  /\ LET res == Check4aResult(Y)
     IN  /\ pc' = IF res = "ok" THEN "4b" ELSE "error"
         /\ err' = IF res = "ok" THEN err ELSE res
  /\ UNCHANGED <<io, scan_calls, plotVars>>
  /\ UNCHANGED <<maf_cutoff, pheno_csv, geno_file, kin_file, geno_hdf, kin_hdf, pheno,
                 acn_indices, Y, G, K, MAF, SNP_indices, SNPs_MAF, r, r_nc,
                 out_csv, out_csv_nc>>

Check4b ==
  /\ pc = "4b"
  /\ LET res == Check4bResult(G, Y)
     IN  /\ pc' = IF res = "ok" THEN "4c" ELSE "error"
         /\ err' = IF res = "ok" THEN err ELSE res
  /\ UNCHANGED <<io, scan_calls, plotVars>>
  /\ UNCHANGED <<maf_cutoff, pheno_csv, geno_file, kin_file, geno_hdf, kin_hdf, pheno,
                 acn_indices, Y, G, K, MAF, SNP_indices, SNPs_MAF, r, r_nc,
                 out_csv, out_csv_nc>>

Check4c ==
  /\ pc = "4c"
  /\ LET res == Check4cResult(K, Y)
     IN  /\ pc' = IF res = "ok" THEN "5a" ELSE "error"
         /\ err' = IF res = "ok" THEN err ELSE res
  /\ UNCHANGED <<io, scan_calls, plotVars>>
  /\ UNCHANGED <<maf_cutoff, pheno_csv, geno_file, kin_file, geno_hdf, kin_hdf, pheno,
                 acn_indices, Y, G, K, MAF, SNP_indices, SNPs_MAF, r, r_nc,
                 out_csv, out_csv_nc>>

\* ------------------------------------------------------------- 5. run
\* column c of a 2-D array
Column(g, c) == [k \in DOMAIN g.data |-> g.data[k][c]]

\* limix.qtl.scan is a library call: what it returns is kept symbolic, one
\* p-value (r.stats.pv20) and one candidate effect size per column of G, each
\* naming the column it was computed from and whether K was passed.
ScanResult(g, withK) ==
  [pv       |-> [c \in 1..g.shape[2] |-> [stat |-> "pv", col |-> Column(g, c), K |-> withK]],
   effsizes |-> [c \in 1..g.shape[2] |-> [stat |-> "effsize", col |-> Column(g, c), K |-> withK]],
   returned |-> TRUE]

\* the default of scan's parameter K
NoK == [kind |-> "none", shape |-> <<>>, data |-> <<>>]

\* the arguments of the call on line 716
ScanArgs5a == [G |-> G, Y |-> Y, K |-> K]

\* 5a: r = scan(G, Y, K = K, ...); the library may also raise
Scan5a ==
  /\ pc = "5a"
  /\ scan_calls' = Append(scan_calls, ScanArgs5a)
  /\ UNCHANGED <<io, plotVars>>
  /\ \/ /\ r' = ScanResult(ScanArgs5a.G, ScanArgs5a.K.kind # "none")
        /\ pc' = "5b"
        /\ err' = err
     \/ /\ r' = r
        /\ pc' = "error"
        /\ err' = "ScanError"
  /\ UNCHANGED <<maf_cutoff, pheno_csv, geno_file, kin_file, geno_hdf, kin_hdf, pheno,
                 acn_indices, Y, G, K, MAF, SNP_indices, SNPs_MAF, r_nc,
                 out_csv, out_csv_nc>>

\* bisect.bisect (bisect_right) on a sorted list: the binary search of the
\* standard library, lo and hi 0-based
RECURSIVE BisectFrom(_, _, _, _)
BisectFrom(a, x, lo, hi) ==
  IF lo < hi
    THEN LET mid == (lo + hi) \div 2
         IN  IF x < a[mid + 1] THEN BisectFrom(a, x, lo, mid)
                               ELSE BisectFrom(a, x, mid + 1, hi)
    ELSE lo

\* bisect.bisect_left
RECURSIVE Mut_BisectLeftFrom(_, _, _, _)
Mut_BisectLeftFrom(a, x, lo, hi) ==
  IF lo < hi
    THEN LET mid == (lo + hi) \div 2
         IN  IF a[mid + 1] < x THEN Mut_BisectLeftFrom(a, x, mid + 1, hi)
                               ELSE Mut_BisectLeftFrom(a, x, lo, mid)
    ELSE lo

Mut_Bisect_Left(a, x) == Mut_BisectLeftFrom(a, x, 0, Len(a))

Bisect(a, x) == BisectFrom(a, x, 0, Len(a))

\* chr_index[:, 1]: the end index of every chromosome region
RegionEnds(chr_index) == [c \in DOMAIN chr_index |-> chr_index[c][2]]

\* [bisect(chr_index[:, 1], snp_index) + 1 for snp_index in SNP_indices]
Chromosomes(chr_index, indices) ==
  [k \in DOMAIN indices |-> Bisect(RegionEnds(chr_index), indices[k]) + 1]

\* the first positions of the file, one for each retained SNP
Mut_Positions_ByRow(positions_all, indices) == [k \in DOMAIN indices |-> positions_all[k]]

\* [positions_all[snp] for snp in SNP_indices]
Positions(positions_all, indices) == Take(positions_all, indices)

MinLen(a, b, c, d, e) == Min2(Len(a), Min2(Len(b), Min2(Len(c), Min2(Len(d), Len(e)))))

\* columns = ['chr', 'pos', 'pvalue', 'maf', 'GVE'] of both data frames
Columns == <<"chr", "pos", "pvalue", "maf", "GVE">>

\* to_csv(file), index = True being the default: the row labels come first,
\* under an empty name
Mut_CsvHeader_WithIndex(columns, index) == <<"">> \o columns

\* the header line of to_csv(file, index = index)
CsvHeader(columns, index) == IF index THEN <<"">> \o columns ELSE columns

\* pd.DataFrame(list(zip(...)), columns = [...]).to_csv(file, index = False):
\* zip stops at the shortest list
ResultsCsv(chromosomes, positions, pvalues, mafs, effsizes) ==
  [written |-> TRUE,
   columns |-> CsvHeader(Columns, FALSE),
   rows    |-> [k \in 1..MinLen(chromosomes, positions, pvalues, mafs, effsizes) |->
                  [chr |-> chromosomes[k], pos |-> positions[k], pvalue |-> pvalues[k],
                   maf |-> mafs[k], GVE |-> effsizes[k]]]]

\* the table a save cell writes from the result of one scan
SavedTable(res) ==
  ResultsCsv(Chromosomes(geno_file.chr_regions, SNP_indices),
             Positions(geno_file.positions, SNP_indices),
             res.pv, SNPs_MAF, res.effsizes)

Io5b ==
  <<FileOp("open", "geno", 756), FileOp("read", "geno", 757),
    FileOp("read", "geno", 759), FileOp("close", "geno", 772)>>

\* 5b: the genotype file is opened again, read, and closed after the write
Save5b ==
  /\ pc = "5b"
  /\ out_csv' = SavedTable(r)
  /\ io' = io \o Io5b
  /\ geno_hdf' = HandleAfter(geno_hdf, Io5b, "geno")
  /\ UNCHANGED <<scan_calls, plotVars>>
  /\ pc' = "5c"
  /\ UNCHANGED <<err, maf_cutoff, pheno_csv, geno_file, kin_file, kin_hdf, pheno,
                 acn_indices, Y, G, K, MAF, SNP_indices, SNPs_MAF, r, r_nc, out_csv_nc>>

\* scan(G, Y, K = K, ...) once more
Mut_ScanArgs5c_WithK == [G |-> G, Y |-> Y, K |-> K]

\* scan(G.transpose(), Y, ...)
Mut_ScanArgs5c_TransposedG ==
  [G |-> NdArray(<<G.shape[2], G.shape[1]>>,
                 [c \in 1..G.shape[2] |-> [k \in 1..G.shape[1] |-> G.data[k][c]]]),
   Y |-> Y, K |-> NoK]

\* the arguments of the call on line 876
ScanArgs5c == [G |-> G, Y |-> Y, K |-> NoK]

\* 5c: r_nc = scan(G, Y, ...), without K
Scan5c ==
  /\ pc = "5c"
  /\ scan_calls' = Append(scan_calls, ScanArgs5c)
  /\ UNCHANGED <<io, plotVars>>
  /\ \/ /\ r_nc' = ScanResult(ScanArgs5c.G, ScanArgs5c.K.kind # "none")
        /\ pc' = "5d"
        /\ err' = err
     \/ /\ r_nc' = r_nc
        /\ pc' = "error"
        /\ err' = "ScanError"
  /\ UNCHANGED <<maf_cutoff, pheno_csv, geno_file, kin_file, geno_hdf, kin_hdf, pheno,
                 acn_indices, Y, G, K, MAF, SNP_indices, SNPs_MAF, r,
                 out_csv, out_csv_nc>>

Io5d ==
  <<FileOp("open", "geno", 902), FileOp("read", "geno", 903),
    FileOp("read", "geno", 905), FileOp("close", "geno", 914)>>

\* 5d
Save5d ==
  /\ pc = "5d"
  /\ out_csv_nc' = SavedTable(r_nc)
  /\ io' = io \o Io5d
  /\ geno_hdf' = HandleAfter(geno_hdf, Io5d, "geno")
  /\ UNCHANGED <<scan_calls, plotVars>>
  /\ pc' = "done"
  /\ UNCHANGED <<err, maf_cutoff, pheno_csv, geno_file, kin_file, kin_hdf, pheno,
                 acn_indices, Y, G, K, MAF, SNP_indices, SNPs_MAF, r, r_nc, out_csv>>

Next ==
  \/ Load2a
  \/ DropNa
  \/ Load2b
  \/ Load2c
  \/ Prep3a
  \/ Subset3b
  \/ Maf3b
  \/ Prep3c
  \/ Check4a
  \/ Check4b
  \/ Check4c
  \/ Scan5a
  \/ Save5b
  \/ Scan5c
  \/ Save5d

Spec == Init /\ [][Next]_vars

\* ------------------------------------------- the section-4 checks alone
\* Any object may be bound to Y, G and K when the check cells run: an array of
\* zero, one or two dimensions, or something that is no numpy array.
Objects ==
  {[kind |-> "other", shape |-> <<>>, data |-> <<>>]} \cup
  {NdArray(sh, <<>>) : sh \in UNION {[1..d -> 0..MaxExtent] : d \in 0..2}}

InitCheck ==
  /\ pc = "4a"
  /\ err = "none"
  /\ Y \in Objects
  /\ G \in Objects
  /\ K \in Objects
  /\ maf_cutoff = <<1, 10>>
  /\ pheno_csv = <<>>
  /\ geno_file = GenoFile(<<>>, {})
  /\ kin_file = KinFile(<<>>, TRUE)
  /\ geno_hdf = "closed"
  /\ kin_hdf = "closed"
  /\ pheno = <<>>
  /\ acn_indices = <<>>
  /\ MAF = <<>>
  /\ SNP_indices = <<>>
  /\ SNPs_MAF = <<>>
  /\ r = NoResult
  /\ r_nc = NoResult
  /\ out_csv = NoFile
  /\ out_csv_nc = NoFile
  /\ io = <<>>
  /\ scan_calls = <<>>
  /\ results = <<>>
  /\ padj_method = "BH"
  /\ p_sign_theshold = 10
  /\ plot = NoPlot

NextCheck == Check4a \/ Check4b \/ Check4c

SpecCheck == InitCheck /\ [][NextCheck]_vars

\* ------------------------------------------------- plotting functions
\* the columns the plotting functions read when called with their defaults
\* ggmanhattan: s.pos = 'pos', s.chr = 'chr', s.pval = 'pvalue'
GgmanhattanColumns == {"pos", "chr", "pvalue"}

\* qqplot: s.pval = 'pvalue'
QqplotColumns == {"pvalue"}

\* manhattan.plot: results$chr, results$pos, results$pvalue
ManhattanPlotColumns == {"chr", "pos", "pvalue"}

\* ---------------------------------------------------------- ggmanhattan
\* A results table is a sequence of rows (chr, pos, pvalue); chromosomes are
\* integers from 1, positions are positive, and a p-value is kept in
\* thousandths (pvalue = 20 is p = 0.02), as is p.sign.theshold.
MaxRows == 3

MaxChr == 3

MaxPos == 2

\* the p-values of a table, the thresholds and the adjustment methods tried
PValues == {2, 20, 400}

Thresholds == {1, 10, 50}

Methods == {"BH", "bonferroni", "none"}

\* 1 in thousandths
One == 1000

\* the 0.01 of line 53, in thousandths
Line53Threshold == 10

\* R's NA (positions are positive)
NA == 0 - 1

Tables ==
  UNION {[1..n -> [chr : 1..MaxChr, pos : 1..MaxPos, pvalue : PValues]] : n \in 1..MaxRows}

\* sort(unique(results[, s.chr])): the groups of tapply
ChrLevels(table) == Ascending({table[k].chr : k \in DOMAIN table})

\* max of a non-empty set of integers
MaxOf(S) == CHOOSE x \in S : \A y \in S : y <= x

\* tapply(results[, s.pos], results[, s.chr], max): one entry for every
\* chromosome that has a marker, in ascending order of the chromosome
InferredLengths(table) ==
  LET levels == ChrLevels(table)
  IN  [g \in DOMAIN levels |->
         MaxOf({table[k].pos : k \in {j \in DOMAIN table : table[j].chr = levels[g]}})]

\* c(0, cumsum(chr.lengths))
CumChrLen(lengths) ==
  [g \in 1..(Len(lengths) + 1) |-> SumSeq(SubSeq(lengths, 1, g - 1))]

\* v[i] of an R vector: NA beyond its end
RIndex(v, i) == IF i \in DOMAIN v THEN v[i] ELSE NA

\* NA + x is NA
RPlus(a, b) == IF a = NA \/ b = NA THEN NA ELSE a + b

\* results[, s.pos] + cum.chr.len[results[, s.chr]]
PlotPos(table, cum) ==
  [k \in DOMAIN table |-> RPlus(table[k].pos, RIndex(cum, table[k].chr))]

\* the smaller of two fractions <<numerator, denominator>>
MinFrac(f, g) == IF f[1] * g[2] <= g[1] * f[2] THEN f ELSE g

RECURSIVE MinFracOf(_)
MinFracOf(S) ==
  LET f == CHOOSE x \in S : TRUE
  IN  IF S = {f} THEN f ELSE MinFrac(f, MinFracOf(S \ {f}))

\* the p-values in ascending order, each as often as it occurs
SortedP(y) == SortSeq(y, LAMBDA a, b : a < b)

\* p.adjust(y, method), every adjusted value a fraction of thousandths.
\* "BH": pmin(1, cummin(n / i * p[o]))[ro], the minimum of n * p(k) / k over
\* the ranks k whose p-value is at least the marker's; "bonferroni":
\* pmin(1, n * p); "none": p.
PAdjust(y, method) ==
  LET n == Len(y)
      sp == SortedP(y)
  IN  [i \in DOMAIN y |->
         IF method = "none" THEN <<y[i], 1>>
         ELSE IF method = "bonferroni" THEN MinFrac(<<One, 1>>, <<n * y[i], 1>>)
         ELSE MinFracOf({<<One, 1>>} \cup
                        {<<n * sp[k], k>> : k \in {j \in DOMAIN sp : sp[j] >= y[i]}})]

\* adjusted value <= threshold (in thousandths)
FracAtMost(f, t) == f[1] <= t * f[2]

\* y[adj_pvalue <= t]
Significant(y, adj, t) == {y[i] : i \in {j \in DOMAIN y : FracAtMost(adj[j], t)}}

\* lines 53-59: the message and p.sign.value.log10.  max of an empty vector is
\* -Inf (with a warning) and -log10(-Inf) is NaN.
SignLine(y, adj, threshold) ==
  IF Significant(y, adj, Line53Threshold) = {}
    THEN [message |-> TRUE, kind |-> "Inf", p |-> NA]
  ELSE IF Significant(y, adj, threshold) = {}
    THEN [message |-> FALSE, kind |-> "NaN", p |-> NA]
  ELSE [message |-> FALSE, kind |-> "value", p |-> MaxOf(Significant(y, adj, threshold))]

\* ggmanhattan(results, chr.lengths = NULL, padj.method, p.sign.theshold): the
\* data frame of the plot and the significance line
GgmanhattanPlot(table, method, threshold) ==
  LET cum == CumChrLen(InferredLengths(table))
      y == [k \in DOMAIN table |-> table[k].pvalue]
      adj == PAdjust(y, method)
  IN  [drawn |-> TRUE,
       pos |-> PlotPos(table, cum),
       y |-> y,
       chr_even |-> [k \in DOMAIN table |-> table[k].chr % 2],
       adj_pvalue |-> adj,
       line |-> SignLine(y, adj, threshold)]

Ggmanhattan ==
  /\ pc = "plot"
  /\ plot' = GgmanhattanPlot(results, padj_method, p_sign_theshold)
  /\ pc' = "plotted"
  /\ UNCHANGED <<err, maf_cutoff, pheno_csv, geno_file, kin_file, geno_hdf, kin_hdf,
                 pheno, acn_indices, Y, G, K, MAF, SNP_indices, SNPs_MAF, r, r_nc,
                 out_csv, out_csv_nc, io, scan_calls,
                 results, padj_method, p_sign_theshold>>

\* the function is called on any table, with any of the methods and thresholds
InitPlot ==
  /\ pc = "plot"
  /\ err = "none"
  /\ results \in Tables
  /\ padj_method \in Methods
  /\ p_sign_theshold \in Thresholds
  /\ plot = NoPlot
  /\ Y = Undef
  /\ G = Undef
  /\ K = Undef
  /\ maf_cutoff = <<1, 10>>
  /\ pheno_csv = <<>>
  /\ geno_file = GenoFile(<<>>, {})
  /\ kin_file = KinFile(<<>>, TRUE)
  /\ geno_hdf = "none"
  /\ kin_hdf = "none"
  /\ pheno = <<>>
  /\ acn_indices = <<>>
  /\ MAF = <<>>
  /\ SNP_indices = <<>>
  /\ SNPs_MAF = <<>>
  /\ r = NoResult
  /\ r_nc = NoResult
  /\ out_csv = NoFile
  /\ out_csv_nc = NoFile
  /\ io = <<>>
  /\ scan_calls = <<>>

NextPlot == Ggmanhattan

SpecPlot == InitPlot /\ [][NextPlot]_vars

\* =============================================================== claims
\* What the claims speak of, read from the input files alone.

\* the identifiers with a non-missing phenotype
PhenotypedIds == {pheno_csv[k].id : k \in {j \in DOMAIN pheno_csv : pheno_csv[j].val # NaN}}

InGeno(a) == \E j \in DOMAIN geno_file.accessions : geno_file.accessions[j] = AcnBytes(a)

InKin(a) == \E j \in DOMAIN kin_file.accessions : kin_file.accessions[j] = AcnBytes(a)

\* the column of the genotype file, the row of the kinship file, of accession a
GenoPlace(a) == CHOOSE j \in DOMAIN geno_file.accessions : geno_file.accessions[j] = AcnBytes(a)

KinPlace(a) == CHOOSE j \in DOMAIN kin_file.accessions : kin_file.accessions[j] = AcnBytes(a)

\* phenotyped and genotyped; and those of them the kinship file holds too
RetainedIds == {a \in PhenotypedIds : InGeno(a)}

CommonIds == {a \in RetainedIds : InKin(a)}

\* steps 3a-3c have run to their end (Y, G and K do not change afterwards)
Prepared ==
  \/ pc \in {"4a", "4b", "4c", "5a", "5b", "5c", "5d", "done"}
  \/ pc = "error" /\ err = "ScanError"

\* the accession whose phenotype value stands in row k of Y
YId(k) == CHOOSE a \in Ids : Y.data[k] \in {<<PhenoValue(a)>>, <<TextValue(a)>>}

\* the calls of accession a at the retained SNPs, read from the genotype file
CallsOf(a) ==
  [c \in DOMAIN SNP_indices |-> geno_file.snps[SNP_indices[c] + 1][GenoPlace(a)]]

\* C1: after steps 3a-3c, for every k, row k of Y, row k of G and row k and
\* column k of K belong to the same accession, whatever the orders of the three
\* accession vectors.
C1_SameAccessionOrder ==
  Prepared =>
    \A k \in DOMAIN Y.data :
      /\ G.data[k] = CallsOf(YId(k))
      /\ \A l \in DOMAIN Y.data :
           K.data[k][l] = kin_file.kinship[KinPlace(YId(k))][KinPlace(YId(l))]

\* the accessions found in Y (by value) and on the diagonal of K (the kinship
\* of an accession with itself)
YIds ==
  {a \in Ids : \E k \in DOMAIN Y.data : Y.data[k] \in {<<PhenoValue(a)>>, <<TextValue(a)>>}}

KIds == {a \in Ids : \E k \in DOMAIN K.data : K.data[k][k] = KinValue(TRUE, a, a)}

\* C2: for any inputs, steps 3a-3c end with Y, G and K reduced to the
\* accessions that have a non-missing phenotype and are in the genotype file and
\* in the kinship file: the step does not fail on an accession the kinship file
\* lacks, and no matrix holds an accession another one lacks.
C2_SameAccessionSet ==
  /\ ~(pc = "error" /\ err = "IndexError")
  /\ Prepared =>
       /\ YIds = CommonIds
       /\ KIds = CommonIds
       /\ Len(Y.data) = Cardinality(CommonIds)
       /\ Len(G.data) = Cardinality(CommonIds)
       /\ Len(K.data) = Cardinality(CommonIds)

\* the MAF filter has run
Filtered ==
  \/ pc \in {"3c", "4a", "4b", "4c", "5a", "5b", "5c", "5d", "done"}
  \/ pc = "error" /\ err \in {"ScanError", "IndexError"}

\* the number of retained accessions that carry allele 1, allele 0, at SNP i
\* (0-based), counted in the genotype file
Ones(i) == Cardinality({a \in RetainedIds : geno_file.snps[i + 1][GenoPlace(a)] = 1})

Zeros(i) == Cardinality({a \in RetainedIds : geno_file.snps[i + 1][GenoPlace(a)] = 0})

MinorCount(i) == Min2(Ones(i), Zeros(i))

\* MAF(i) >= maf_cutoff, in exact arithmetic; there is no MAF without accessions
MafAtLeastCutoff(i) ==
  /\ RetainedIds # {}
  /\ MinorCount(i) * maf_cutoff[2] >= maf_cutoff[1] * Cardinality(RetainedIds)

\* C3: the MAF filter keeps a SNP if and only if its MAF is at least
\* maf_cutoff: such a SNP is in SNP_indices, with its column in G, and a SNP of
\* smaller MAF is in neither.
C3_MafFilter ==
  Filtered =>
    /\ \A i \in 0..(NSnp - 1) : (i \in Range(SNP_indices)) <=> MafAtLeastCutoff(i)
    /\ G.shape[2] = Len(SNP_indices)
    /\ \A k \in DOMAIN G.data : Len(G.data[k]) = Len(SNP_indices)

\* a SNP whose MAF equals maf_cutoff is kept while another one is dropped
C3_Witness ==
  /\ Filtered
  /\ \E i, j \in 0..(NSnp - 1) :
       /\ MinorCount(i) * maf_cutoff[2] = maf_cutoff[1] * Cardinality(RetainedIds)
       /\ MinorCount(i) > 0
       /\ i \in Range(SNP_indices)
       /\ j \notin Range(SNP_indices)

\* C4: the MAF of every SNP is min(number of 1-calls, number of 0-calls) over
\* the retained accessions, divided by their number; the other accessions of
\* the genotype file do not count.
C4_MafValue ==
  Filtered =>
    /\ Len(MAF) = NSnp
    /\ \A i \in 0..(NSnp - 1) : MAF[i + 1] = <<MinorCount(i), Cardinality(RetainedIds)>>

\* a SNP whose minor allele count over the whole genotype file differs from
\* the count over the retained accessions
C4_Witness ==
  /\ Filtered
  /\ RetainedIds # {}
  /\ \E i \in 0..(NSnp - 1) :
       LET all1 == Cardinality({j \in DOMAIN geno_file.accessions : geno_file.snps[i + 1][j] = 1})
           all0 == Len(geno_file.accessions) - all1
       IN  /\ Min2(all0, all1) # MinorCount(i)
           /\ MAF[i + 1][1] = MinorCount(i)

\* the SNPs (0-based) whose MAF is at least maf_cutoff
PassingSnps == {i \in 0..(NSnp - 1) : MafAtLeastCutoff(i)}

\* a written table has one row for each passing SNP and no other row
OneRowPerSnp(table) ==
  table.written =>
    /\ Len(table.rows) = Cardinality(PassingSnps)
    /\ Len(table.rows) = Len(SNP_indices)
    /\ Len(table.rows) = G.shape[2]
    /\ {table.rows[k].pos : k \in DOMAIN table.rows} =
         {geno_file.positions[i + 1] : i \in PassingSnps}

\* C5: each of the two result tables has exactly as many rows as SNPs were
\* retained by the MAF filter (the length of SNP_indices, the number of
\* columns of G): one row for each retained SNP, none missing, none twice.
C5_RowCount == OneRowPerSnp(out_csv) /\ OneRowPerSnp(out_csv_nc)

C5_Witness ==
  /\ pc = "done"
  /\ out_csv.written
  /\ out_csv_nc.written
  /\ Len(out_csv.rows) > 1
  /\ Len(out_csv_nc.rows) < NSnp

\* row k of a written table gives SNP_indices[k] the number of the region
\* that holds it
ChrIsRegion(table) ==
  table.written =>
    \A k \in DOMAIN table.rows :
      LET i == SNP_indices[k]
          c == table.rows[k].chr
      IN  /\ table.rows[k].pos = geno_file.positions[i + 1]
          /\ c \in 1..Len(geno_file.chr_regions)
          /\ geno_file.chr_regions[c][1] <= i
          /\ i < geno_file.chr_regions[c][2]

\* C6: the chromosome written for a retained SNP of index i is the 1-based
\* number of the chr_regions row whose range [start, end) holds i, so it lies
\* between 1 and the number of chromosomes, for the first and the last index
\* of a chromosome too.
C6_ChromosomeOfSnp == ChrIsRegion(out_csv) /\ ChrIsRegion(out_csv_nc)

\* a table with the last SNP of chromosome 1, the first SNP of chromosome 2 and
\* the last SNP of the file
C6_Witness ==
  /\ out_csv.written
  /\ Len(geno_file.chr_regions) >= 2
  /\ \E k, l, m \in DOMAIN out_csv.rows :
       /\ SNP_indices[k] = geno_file.chr_regions[1][2] - 1
       /\ out_csv.rows[k].chr = 1
       /\ SNP_indices[l] = geno_file.chr_regions[2][1]
       /\ out_csv.rows[l].chr = 2
       /\ SNP_indices[m] = NSnp - 1
       /\ out_csv.rows[m].chr = Len(geno_file.chr_regions)

NonDecreasingChr(table) ==
  \A k, l \in DOMAIN table.rows : k < l => table.rows[k].chr <= table.rows[l].chr

\* C7: the retained SNPs are in ascending index order and the chromosome
\* column of each output table is non-decreasing from the first row to the last.
C7_ChromosomeMonotonic ==
  /\ \A k, l \in DOMAIN SNP_indices : k < l => SNP_indices[k] < SNP_indices[l]
  /\ NonDecreasingChr(out_csv)
  /\ NonDecreasingChr(out_csv_nc)

C7_Witness ==
  /\ out_csv_nc.written
  /\ \E k, l \in DOMAIN out_csv_nc.rows :
       k < l /\ out_csv_nc.rows[k].chr < out_csv_nc.rows[l].chr

\* C8: after steps 3a-3c Y is n x 1, G is n x (number of retained SNPs) and K
\* is n x n, n the number of retained accessions.
C8_Shapes ==
  Prepared =>
    LET n == Cardinality(RetainedIds)
        m == Len(SNP_indices)
    IN  /\ Y.kind = "ndarray" /\ G.kind = "ndarray" /\ K.kind = "ndarray"
        /\ Y.shape = <<n, 1>>
        /\ Len(Y.data) = n
        /\ \A k \in DOMAIN Y.data : Len(Y.data[k]) = 1
        /\ G.shape = <<n, m>>
        /\ Len(G.data) = n
        /\ \A k \in DOMAIN G.data : Len(G.data[k]) = m
        /\ K.shape = <<n, n>>
        /\ Len(K.data) = n
        /\ \A k \in DOMAIN K.data : Len(K.data[k]) = n

C8_Witness ==
  /\ Prepared
  /\ Cardinality(RetainedIds) >= 2
  /\ Len(SNP_indices) >= 1
  /\ Len(SNP_indices) # Cardinality(RetainedIds)
  /\ Len(geno_file.accessions) > Cardinality(RetainedIds)

\* what the section-4 text asks of Y, G and K
HasOneColumn(y) == Len(y.shape) >= 2 /\ y.shape[2] = 1

RowCountIs(x, n) == Len(x.shape) >= 1 /\ x.shape[1] = n

ColumnCountIs(x, n) == Len(x.shape) >= 2 /\ x.shape[2] = n

\* one of the cases in which the claim has a check fail
ShouldRaiseValueError ==
  IF ~IsArray(Y) \/ ~HasOneColumn(Y) THEN TRUE
  ELSE \/ ~IsArray(G) \/ ~RowCountIs(G, Y.shape[1])
       \/ ~IsArray(K) \/ ~RowCountIs(K, Y.shape[1]) \/ ~ColumnCountIs(K, Y.shape[1])

\* C9: the section-4 checks end in a ValueError exactly when Y is no numpy
\* array or has not exactly one column, G is no numpy array or its row count
\* differs from Y's, or K is no numpy array or its row or column count differs
\* from Y's row count; otherwise no check raises.
C9_ChecksRaiseValueError ==
  pc \in {"5a", "error"} =>
    IF ShouldRaiseValueError THEN pc = "error" /\ err = "ValueError"
                             ELSE pc = "5a" /\ err = "none"

\* the identifiers of set S in the order of a file's accession vector
InFileOrder(accessions, S) ==
  LET bytes == {AcnBytes(a) : a \in S}
      ids == [b \in bytes |-> CHOOSE a \in S : AcnBytes(a) = b]
      kept == SelectSeq(accessions, LAMBDA b : b \in bytes)
  IN  [k \in DOMAIN kept |-> ids[kept[k]]]

\* the value the phenotype table records for accession a
CsvValue(a) == pheno_csv[CHOOSE k \in DOMAIN pheno_csv : pheno_csv[k].id = a].val

\* C10: Y, the accession order, G, SNP_indices and K are determined by the
\* set of (accession, value) records of the phenotype table and by the two
\* files, not by the order of the table's rows; Y and G are in the order of
\* the genotype file's accession vector.
C10_PhenoOrderIrrelevant ==
  /\ Filtered =>
       LET genoOrder == InFileOrder(geno_file.accessions, RetainedIds)
           genoPlace == [a \in RetainedIds |-> GenoPlace(a)]
       IN  /\ Index(pheno) = [k \in DOMAIN genoOrder |-> AcnBytes(genoOrder[k])]
           /\ Y.data = [k \in DOMAIN genoOrder |-> <<CsvValue(genoOrder[k])>>]
           /\ SNP_indices = Ascending(PassingSnps)
           /\ G.data = [k \in DOMAIN genoOrder |->
                          [c \in DOMAIN SNP_indices |->
                             geno_file.snps[SNP_indices[c] + 1][genoPlace[genoOrder[k]]]]]
  /\ Prepared =>
       LET kinOrder == InFileOrder(kin_file.accessions, RetainedIds)
           kinPlace == [a \in RetainedIds |-> KinPlace(a)]
       IN  K.data = [a \in DOMAIN kinOrder |->
                       [b \in DOMAIN kinOrder |->
                          kin_file.kinship[kinPlace[kinOrder[a]]][kinPlace[kinOrder[b]]]]]

\* the rows of the phenotype table are not in the genotype file's order
C10_Witness ==
  /\ Prepared
  /\ Cardinality(RetainedIds) >= 2
  /\ InFileOrder([k \in DOMAIN pheno_csv |-> AcnBytes(pheno_csv[k].id)], RetainedIds)
       # InFileOrder(geno_file.accessions, RetainedIds)
  /\ Len(SNP_indices) >= 1

\* the handles of a file that are open after the first k operations of the run
OpenHandles(file, k) ==
  Cardinality({j \in 1..k : io[j].file = file /\ io[j].op = "open"}) -
  Cardinality({j \in 1..k : io[j].file = file /\ io[j].op = "close"})

\* the lines on which a file was opened, in order
OpenedOn(file) ==
  LET opens == SelectSeq(io, LAMBDA e : e.file = file /\ e.op = "open")
  IN  [k \in DOMAIN opens |-> opens[k].line]

\* C11: in a run of all cells that completes, every read of the genotype file
\* and of the kinship file happens while a handle of that file is open, never
\* more than one handle of a file is open, and at the end every handle that
\* was opened (genotype in 2b, 5b and 5d, kinship in 2c) has been closed.
C11_HandlesAroundReads ==
  pc = "done" =>
    /\ \A k \in DOMAIN io :
         /\ OpenHandles(io[k].file, k) \in {0, 1}
         /\ io[k].op = "read" => OpenHandles(io[k].file, k) = 1
    /\ OpenHandles("geno", Len(io)) = 0
    /\ OpenHandles("kin", Len(io)) = 0
    /\ geno_hdf = "closed"
    /\ kin_hdf = "closed"
    /\ OpenedOn("geno") = <<259, 756, 902>>
    /\ OpenedOn("kin") = <<310>>

\* a completed run that read both files once per accession and reopened the
\* genotype file for both tables
C11_Witness ==
  /\ pc = "done"
  /\ Len(pheno) >= 2
  /\ \E k \in DOMAIN io : io[k] = FileOp("read", "kin", 456)
  /\ \E k \in DOMAIN io : io[k] = FileOp("read", "geno", 905)

\* a written table has the five columns in order, a value of each in every
\* row, and every column a plotting function reads by default
FiveColumns(table) ==
  table.written =>
    /\ table.columns = <<"chr", "pos", "pvalue", "maf", "GVE">>
    /\ \A k \in DOMAIN table.rows : DOMAIN table.rows[k] = Range(table.columns)
    /\ GgmanhattanColumns \subseteq Range(table.columns)
    /\ QqplotColumns \subseteq Range(table.columns)
    /\ ManhattanPlotColumns \subseteq Range(table.columns)

\* C12: each output CSV has exactly the columns chr, pos, pvalue, maf, GVE in
\* that order and no index column, so it holds the columns chr, pos and pvalue
\* that ggmanhattan, qqplot and manhattan.plot read by default.
C12_CsvColumns == FiveColumns(out_csv) /\ FiveColumns(out_csv_nc)

C12_Witness ==
  /\ out_csv.written
  /\ out_csv_nc.written
  /\ Len(out_csv.rows) >= 1
  /\ Len(out_csv_nc.rows) >= 1

\* the call passed the matrices that 3a-3c prepared and that pass the checks
\* of section 4
CalledOnChecked(call) ==
  /\ call.Y = Y
  /\ call.G = G
  /\ Check4aResult(call.Y) = "ok"
  /\ Check4bResult(call.G, call.Y) = "ok"
  /\ Check4cResult(K, call.Y) = "ok"

\* every row of a table holds a p-value and an effect size of the scan with
\* K (withK = TRUE) or of the scan without
RowsFromScan(table, withK) ==
  \A k \in DOMAIN table.rows :
    /\ table.rows[k].pvalue.K = withK
    /\ table.rows[k].GVE.K = withK

\* what holds of scan's calls and of the two files in every state of a run
ScanThenWrite ==
  /\ scan_calls # <<>> => Prepared
  /\ \A c \in DOMAIN scan_calls : CalledOnChecked(scan_calls[c])
  /\ Len(scan_calls) <= 2
  /\ Len(scan_calls) >= 1 => scan_calls[1].K = K
  /\ Len(scan_calls) >= 2 => scan_calls[2].K = NoK
  /\ pc = "done" => Len(scan_calls) = 2
  /\ r.returned => Len(scan_calls) >= 1
  /\ r_nc.returned => Len(scan_calls) = 2 /\ out_csv.written
  /\ out_csv.written => r.returned /\ RowsFromScan(out_csv, TRUE)
  /\ out_csv_nc.written => r_nc.returned /\ RowsFromScan(out_csv_nc, FALSE)

\* a cell that writes one of the files leaves the other file as it is
WritesOwnFile ==
  /\ out_csv' # out_csv => pc = "5b" /\ out_csv_nc' = out_csv_nc
  /\ out_csv_nc' # out_csv_nc => pc = "5d" /\ out_csv' = out_csv

\* C13: scan is called only after Y, G and K have been prepared and have
\* passed the section-4 checks; it is called twice in a completed run, first
\* with K and then without; each file is written only after the scan whose
\* results it holds has returned, the results with K in out_csv and those
\* without in out_csv_nc, and no write touches the other file.
C13_LoadFilterComputeWrite == []ScanThenWrite /\ [][WritesOwnFile]_vars

C13_Witness ==
  /\ pc = "done"
  /\ Len(scan_calls) = 2
  /\ Len(out_csv.rows) >= 1
  /\ Len(out_csv_nc.rows) >= 1
  /\ out_csv.rows # out_csv_nc.rows

\* for every SNP i (0-based, kept at i + 1) its calls of the retained
\* accessions, in the order of the genotype file, read from the file
SnpColumns ==
  LET genoOrder == InFileOrder(geno_file.accessions, RetainedIds)
      place == [k \in DOMAIN genoOrder |-> GenoPlace(genoOrder[k])]
  IN  [i \in 1..NSnp |-> [k \in DOMAIN genoOrder |-> geno_file.snps[i][place[k]]]]

\* the number of the chromosome region that holds SNP i
RegionOf(i) ==
  CHOOSE c \in DOMAIN geno_file.chr_regions :
    geno_file.chr_regions[c][1] <= i /\ i < geno_file.chr_regions[c][2]

\* row k of a written table is about the k-th passing SNP in all five columns
RowsOfOneSnp(table) ==
  table.written =>
    LET snps == Ascending(PassingSnps)
        n == Cardinality(RetainedIds)
        columns == SnpColumns
    IN  /\ Len(table.rows) = Len(snps)
        /\ \A k \in DOMAIN table.rows :
             LET i == snps[k]
                 row == table.rows[k]
                 col == columns[i + 1]
             IN  /\ row.pos = geno_file.positions[i + 1]
                 /\ row.maf = <<MinorCount(i), n>>
                 /\ row.chr = RegionOf(i)
                 /\ row.pvalue.stat = "pv"
                 /\ row.pvalue.col = col
                 /\ row.GVE.stat = "effsize"
                 /\ row.GVE.col = col
                 /\ Column(G, k) = col

\* C14: row k of each output table describes the k-th retained SNP alone: its
\* position, its MAF from 3b, its chromosome, and the p-value and effect size
\* scan computed from column k of G, which holds that SNP's calls.
C14_RowOfOneSnp == RowsOfOneSnp(out_csv) /\ RowsOfOneSnp(out_csv_nc)

\* a table whose row k is not about SNP k of the file: an earlier SNP was
\* dropped, and the row's SNP is polymorphic and not on the first chromosome
C14_Witness ==
  /\ out_csv.written
  /\ out_csv_nc.written
  /\ \E k \in DOMAIN out_csv_nc.rows :
       /\ SNP_indices[k] # k - 1
       /\ out_csv_nc.rows[k].maf[1] > 0
       /\ out_csv_nc.rows[k].chr > 1

\* the accessions for which the phenotype table holds a number
NumericIds == {pheno_csv[k].id : k \in {j \in DOMAIN pheno_csv : IsNumber(pheno_csv[j].val)}}

\* C15: accessions whose phenotype value is missing or is not a number are
\* removed before the matrices are built: every row of Y holds a number, and
\* an accession without a numeric value has no row in Y and G and no row and
\* column in K.
C15_NoMissingOrNonNumeric ==
  Filtered =>
    /\ \A k \in DOMAIN Y.data : IsNumber(Y.data[k][1])
    /\ YIds \subseteq NumericIds
    /\ {a \in Ids : AcnBytes(a) \in Range(Index(pheno))} \subseteq NumericIds
    /\ Len(G.data) = Cardinality({a \in NumericIds : InGeno(a)})
    /\ Prepared => KIds \subseteq NumericIds

\* the cells 5a to 5d leave G, Y, SNP_indices and SNPs_MAF as they are
FrameOfSection5 ==
  pc \in {"5a", "5b", "5c", "5d"} => UNCHANGED <<G, Y, SNP_indices, SNPs_MAF>>

\* both scans were given one G and one Y, and the two tables agree in all but
\* the p-values and the effect sizes
SameButKinship ==
  /\ Len(scan_calls) = 2 =>
       /\ scan_calls[1].G = scan_calls[2].G
       /\ scan_calls[1].Y = scan_calls[2].Y
       /\ scan_calls[1].K # scan_calls[2].K
  /\ out_csv.written /\ out_csv_nc.written =>
       /\ Len(out_csv.rows) = Len(out_csv_nc.rows)
       /\ \A k \in DOMAIN out_csv.rows :
            /\ out_csv.rows[k].chr = out_csv_nc.rows[k].chr
            /\ out_csv.rows[k].pos = out_csv_nc.rows[k].pos
            /\ out_csv.rows[k].maf = out_csv_nc.rows[k].maf
            /\ out_csv.rows[k].pvalue.col = out_csv_nc.rows[k].pvalue.col
            /\ out_csv.rows[k].GVE.col = out_csv_nc.rows[k].GVE.col

\* C16: the two association runs differ only in the kinship term: no step from
\* 5a to 5d changes G, Y, SNP_indices or SNPs_MAF, both scans receive the same
\* G and Y, and the two tables have the same number of rows and the same chr,
\* pos and maf in every row.
C16_OnlyKinshipDiffers == []SameButKinship /\ [][FrameOfSection5]_vars

C16_Witness ==
  /\ pc = "done"
  /\ Len(out_csv.rows) >= 2
  /\ Len(out_csv_nc.rows) >= 2
  /\ \A k \in DOMAIN out_csv.rows : out_csv.rows[k].pvalue # out_csv_nc.rows[k].pvalue

\* the length inferred for chromosome c: the largest position of its markers,
\* nothing for a chromosome without marker
InferredLength(c) ==
  LET at == {results[k].pos : k \in {j \in DOMAIN results : results[j].chr = c}}
  IN  IF at = {} THEN 0 ELSE MaxOf(at)

RECURSIVE LengthBelow(_)
\* the sum of the inferred lengths of the chromosomes numbered below c
LengthBelow(c) == IF c <= 1 THEN 0 ELSE InferredLength(c - 1) + LengthBelow(c - 1)

\* C17: with chr.lengths = NULL every marker of chromosome c is plotted at its
\* position plus the sum of the inferred lengths of the chromosomes numbered
\* below c, so a marker of a higher chromosome is never left of a marker of a
\* lower one, also when a chromosome number has no marker in the table.
C17_ChromosomesSideBySide ==
  plot.drawn =>
    /\ \A k \in DOMAIN results :
         plot.pos[k] = results[k].pos + LengthBelow(results[k].chr)
    /\ \A k, l \in DOMAIN results :
         results[k].chr > results[l].chr =>
           plot.pos[k] # NA /\ plot.pos[l] # NA /\ plot.pos[k] >= plot.pos[l]

\* the markers whose adjusted p-value is at most p.sign.theshold
SignificantMarkers ==
  {k \in DOMAIN results : FracAtMost(PAdjust(plot.y, padj_method)[k], p_sign_theshold)}

\* C18: whatever p.sign.theshold is, 'No significant markers' is given, and the
\* line set to infinity, exactly when no marker has an adjusted p-value <=
\* p.sign.theshold; otherwise the line is at the largest p-value of the markers
\* with an adjusted p-value <= p.sign.theshold, the p-value of some marker.
C18_SignificanceThreshold ==
  plot.drawn =>
    IF SignificantMarkers = {}
      THEN plot.line.message /\ plot.line.kind = "Inf"
      ELSE /\ ~plot.line.message
           /\ plot.line.kind = "value"
           /\ plot.line.p = MaxOf({results[k].pvalue : k \in SignificantMarkers})
           /\ \E k \in DOMAIN results : results[k].pvalue = plot.line.p

\* the kinship matrix of the file is symmetric
FileSymmetric ==
  \A i, j \in DOMAIN kin_file.kinship : kin_file.kinship[i][j] = kin_file.kinship[j][i]

\* C19: K is the sub-matrix of the file's kinship matrix taken with one index
\* list for rows and columns: K[a][b] is the file's kinship of the accession of
\* row a with the accession of column b, and K is square, and symmetric when
\* the file's matrix is.
C19_KinshipSubmatrix ==
  Prepared =>
    LET n == Len(acn_indices)
        acn == [a \in 1..n |-> kin_file.accessions[acn_indices[a] + 1]]
        place == [a \in 1..n |-> KinPlace(CHOOSE x \in Ids : AcnBytes(x) = acn[a])]
    IN  /\ n = Cardinality(RetainedIds)
        /\ Range(acn) = {AcnBytes(x) : x \in RetainedIds}
        /\ K.shape = <<n, n>>
        /\ Len(K.data) = n
        /\ \A a \in 1..n :
             /\ Len(K.data[a]) = n
             /\ \A b \in 1..n :
                  /\ K.data[a][b] = kin_file.kinship[acn_indices[a] + 1][acn_indices[b] + 1]
                  /\ K.data[a][b] = kin_file.kinship[place[a]][place[b]]
                  /\ FileSymmetric => K.data[a][b] = K.data[b][a]

\* a symmetric file that holds more accessions than are retained, not in
\* ascending order of their identifiers
C19_Witness ==
  /\ Prepared
  /\ FileSymmetric
  /\ Len(K.data) >= 2
  /\ Len(kin_file.accessions) > Len(K.data)
  /\ acn_indices # [a \in DOMAIN acn_indices |-> a - 1]
  /\ K.data[1][2] # K.data[1][1]

\* a MAF that is a number between 0 and 0.5 (0/0, NaN, is none)
BetweenZeroAndHalf(f) == f[2] > 0 /\ 0 <= f[1] /\ 2 * f[1] <= f[2]

\* all retained accessions carry the same allele at SNP i (0-based)
Monomorphic(i) == MinorCount(i) = 0

\* column c of G holds one value only
ConstantColumn(c) == \A k, l \in DOMAIN G.data : G.data[k][c] = G.data[l][c]

\* with a positive threshold no monomorphic SNP is retained and no column of
\* G is constant
NoMonomorphicSnp ==
  maf_cutoff[1] > 0 =>
    /\ \A i \in 0..(NSnp - 1) : Monomorphic(i) => i \notin Range(SNP_indices)
    /\ \A c \in 1..G.shape[2] : ~ConstantColumn(c)

\* C20, as stated: for every SNP the minor allele count is at most half the
\* number of retained accessions and MAF is between 0 and 0.5, and with
\* maf_cutoff > 0 no monomorphic SNP is retained, so no column of G is constant.
C20_MafAtMostHalf ==
  Filtered =>
    /\ \A i \in DOMAIN MAF : 2 * MAF[i][1] <= MAF[i][2] /\ BetweenZeroAndHalf(MAF[i])
    /\ NoMonomorphicSnp

\* C20, amended: for every SNP the minor allele count is at most half the
\* number of retained accessions; MAF is between 0 and 0.5 whenever at least
\* one accession is retained, and is NaN (0/0) for every SNP when none is; and
\* with maf_cutoff > 0 no monomorphic SNP is retained, so no column of G is
\* constant.
C20_MafAtMostHalfOfRetained ==
  Filtered =>
    /\ Len(MAF) = NSnp
    /\ \A i \in DOMAIN MAF :
         /\ MAF[i][2] = Cardinality(RetainedIds)
         /\ 0 <= MAF[i][1]
         /\ 2 * MAF[i][1] <= MAF[i][2]
         /\ IF RetainedIds # {} THEN BetweenZeroAndHalf(MAF[i])
                                ELSE MAF[i] = <<0, 0>> /\ SNP_indices = <<>>
    /\ NoMonomorphicSnp

\* a positive threshold, a monomorphic SNP that is dropped and a SNP carried
\* by exactly half of the retained accessions that is kept
C20_Witness ==
  /\ Filtered
  /\ maf_cutoff[1] > 0
  /\ Cardinality(RetainedIds) >= 2
  /\ \E i, j \in 0..(NSnp - 1) :
       /\ Monomorphic(i)
       /\ Ones(i) > 0
       /\ i \notin Range(SNP_indices)
       /\ 2 * MAF[j + 1][1] = MAF[j + 1][2]
       /\ j \in Range(SNP_indices)

\* C21: if the retained accessions stand in the same relative order in the
\* kinship file's accession vector as in the genotype file's (the files may
\* hold different numbers of accessions, at different places), then row k and
\* column k of K belong to the accession of row k of Y and of G.
C21_SameRelativeOrder ==
  Prepared =>
    LET genoOrder == InFileOrder(geno_file.accessions, RetainedIds)
        kinOrder == InFileOrder(kin_file.accessions, RetainedIds)
    IN  genoOrder = kinOrder =>
          LET inGeno == [k \in DOMAIN genoOrder |-> GenoPlace(genoOrder[k])]
              inKin == [k \in DOMAIN genoOrder |-> KinPlace(genoOrder[k])]
          IN  /\ Len(Y.data) = Len(genoOrder)
              /\ Len(G.data) = Len(genoOrder)
              /\ Len(K.data) = Len(genoOrder)
              /\ \A k \in DOMAIN genoOrder :
                   /\ Y.data[k] = <<CsvValue(genoOrder[k])>>
                   /\ G.data[k] = [c \in DOMAIN SNP_indices |->
                                     geno_file.snps[SNP_indices[c] + 1][inGeno[k]]]
                   /\ Len(K.data[k]) = Len(genoOrder)
                   /\ \A l \in DOMAIN genoOrder :
                        K.data[k][l] = kin_file.kinship[inKin[k]][inKin[l]]

\* the two files hold different numbers of accessions, a retained accession
\* at different places, yet the retained ones in one relative order, which is
\* not the ascending order of the identifiers
C21_Witness ==
  /\ Prepared
  /\ Cardinality(RetainedIds) >= 2
  /\ InFileOrder(geno_file.accessions, RetainedIds) =
       InFileOrder(kin_file.accessions, RetainedIds)
  /\ InFileOrder(geno_file.accessions, RetainedIds) # Ascending(RetainedIds)
  /\ Len(geno_file.accessions) # Len(kin_file.accessions)
  /\ \E a \in RetainedIds : GenoPlace(a) # KinPlace(a)
  /\ K.data[1][2] # K.data[2][1]

====
